---- MODULE Spec2Model ----
(***************************************************************************)
(* Model of cloudflare_ddns.py: the rate limiter (__rate_limit), the       *)
(* public IP resolver (__get_public_ip), the list call with retry and      *)
(* backoff (__get_cloudflare_dns_records), the update call                 *)
(* (__update_cloudflare_dns_record) and the decision loop of main.         *)
(*                                                                         *)
(* The environment is the clock, the content of the .last_run file before  *)
(* the first run, the resolver's answer, the outcome of every HTTP request *)
(* and the records of the zone held by the DNS provider.                   *)
(***************************************************************************)
EXTENDS Integers, Sequences, FiniteSets, TLC

(* ------------------------------ constants ------------------------------ *)

MIN_SECONDS_BETWEEN_RUNS == 55

MAX_RETRIES == 3

RETRY_BACKOFF_SECONDS == 5

\* os.getenv('CLOUDFLARE_RECORD_NAME')
CLOUDFLARE_RECORD_NAME == "home.example.com"

(* -------------------------------- bounds ------------------------------- *)

\* Earliest clock reading. time.time() is seconds since 1970, so every
\* reading is far above MIN_SECONDS_BETWEEN_RUNS.
Epoch == 60

\* Clock readings lie in Epoch .. Epoch + MaxSpan.
MaxSpan == 55

\* Most records the zone holds (and a list response returns).
MaxRecords == 2

\* Invocations of the script in one behaviour.
MaxRuns == 2

(* ------------------------------- domains ------------------------------- *)

\* Python's None.
None == "None"

\* Exit status of a process that has not ended yet.
Running == -1

\* last_run is never assigned when .last_run does not exist.
Unset == -1

\* The instances of the script. Spec runs one of them at a time.
Procs == {1, 2}

Single == {1}

\* Clock readings: the ones at 0 and 54 seconds past each multiple of
\* MIN_SECONDS_BETWEEN_RUNS after Epoch, so that two readings can be 0, 1,
\* 54 and 55 seconds apart, in either order (the clock can be set back).
Times ==
  {t \in Epoch..(Epoch + MaxSpan) :
     (t - Epoch) % MIN_SECONDS_BETWEEN_RUNS \in {0, 54}}

IPs == {"1.2.3.4", "5.6.7.8"}

RecordTypes == {"A", "AAAA"}

RecordNames == {CLOUDFLARE_RECORD_NAME, "other.example.com"}

RecordIds == 1..MaxRecords

\* A DNS record as the provider's API returns it; its id is its position in
\* the zone, so ids are unique.
RecordsOfLength(n) ==
  {z \in [1..n -> [id : RecordIds, type : RecordTypes,
                   name : RecordNames, content : IPs]] :
     \A i \in 1..n : z[i].id = i}

Zones == UNION {RecordsOfLength(n) : n \in 0..MaxRecords}

(* ----------------------- the .last_run file ---------------------------- *)

\* Content of RATE_LIMIT_FILE: absent, empty or whitespace only, a number
\* as str() wrote it, or any other text.
AbsentFile == [kind |-> "absent", val |-> 0]

EmptyFile == [kind |-> "empty", val |-> 0]

GarbageFile == [kind |-> "garbage", val |-> 0]

\* str(now): the text f.write(str(now)) leaves in the file.
StrOf(t) == [kind |-> "num", val |-> t]

FileContents == {AbsentFile, EmptyFile, GarbageFile} \cup {StrOf(t) : t \in Times}

\* os.path.exists(RATE_LIMIT_FILE)
Exists(f) == f.kind # "absent"

\* float() raises ValueError on text that is not a number.
FloatRaises(f) == f.kind = "garbage"

\* float(f.read().strip() or 0): the empty string is falsy, so it reads 0.
FloatOrZero(f) == IF f.kind = "num" THEN f.val ELSE 0

\* now - last_run < MIN_SECONDS_BETWEEN_RUNS
TooSoonOffByOne(n, l) == n - l < MIN_SECONDS_BETWEEN_RUNS - 1

TooSoonOnlyIfElapsed(n, l) == n - l >= 0 /\ n - l < MIN_SECONDS_BETWEEN_RUNS

TooSoon(n, l) == n - l < MIN_SECONDS_BETWEEN_RUNS

VARIABLES
  file,               \* content of RATE_LIMIT_FILE
  zone,               \* the provider's records, a sequence indexed by id
  runs,               \* invocations so far
  pc,                 \* where each instance is
  now,                \* __rate_limit: now
  last_run,           \* __rate_limit: last_run
  public_ip_address,  \* main: public_ip_address
  attempt,            \* __get_cloudflare_dns_records: attempt
  records,            \* main: records, the parsed body of the list response
  idx,                \* main: position of the for loop in records["result"]
  exitCode,           \* exit status of the process
  raised,             \* exception that escaped main
  outcome,            \* how the run ended
  dnsQueries,         \* resolver.resolve calls of the run
  gets,               \* requests.get calls of the run
  slept,              \* seconds of time.sleep of the run
  puts,               \* requests.put calls of the run, in order
  resolution,         \* what the resolver did in the run
  synced,             \* per record id: the content the last PUT for it wrote,
                      \* when that PUT returned 200
  lastPass,           \* start time of the last run that passed the limiter
  prevPass,           \* lastPass as it was when the run started
  seen,               \* what the run found in RATE_LIMIT_FILE
  log,                \* the lines main logged in the run, in order
  blockedSince        \* runs the limiter stopped since the last one it passed

vars ==
  <<file, zone, runs, pc, now, last_run, public_ip_address, attempt, records,
    idx, exitCode, raised, outcome, dnsQueries, gets, slept, puts, resolution,
    synced, lastPass, prevPass, seen, log, blockedSince>>

NoBody == [kind |-> "none", result |-> <<>>]

\* The run has not looked at RATE_LIMIT_FILE yet.
NotRead == [kind |-> "unread", val |-> 0]

\* A line main logs; at is the position of the record it is about (0 when
\* it is about none).
Line(msg, at) == [msg |-> msg, at |-> at]

Init ==
  /\ file \in FileContents
  /\ zone \in Zones
  /\ runs = 0
  /\ pc = [p \in Procs |-> "idle"]
  /\ now = [p \in Procs |-> Epoch]
  /\ last_run = [p \in Procs |-> Unset]
  /\ public_ip_address = [p \in Procs |-> None]
  /\ attempt = [p \in Procs |-> 1]
  /\ records = [p \in Procs |-> NoBody]
  /\ idx = [p \in Procs |-> 1]
  /\ exitCode = [p \in Procs |-> Running]
  /\ raised = [p \in Procs |-> None]
  /\ outcome = [p \in Procs |-> None]
  /\ dnsQueries = [p \in Procs |-> 0]
  /\ gets = [p \in Procs |-> 0]
  /\ slept = [p \in Procs |-> 0]
  /\ puts = [p \in Procs |-> <<>>]
  /\ resolution = [p \in Procs |-> None]
  /\ synced = [i \in RecordIds |-> None]
  \* A timestamp in the file was written by an earlier run that passed.
  /\ lastPass = IF file.kind = "num" THEN file.val ELSE Unset
  /\ prevPass = [p \in Procs |-> Unset]
  /\ seen = [p \in Procs |-> NotRead]
  /\ log = [p \in Procs |-> <<>>]
  /\ blockedSince = 0


(* ---------------------------- process exit ----------------------------- *)

\* The process of instance p ends: sys.exit(code), main returning (status
\* 0), or an exception leaving main (the interpreter prints the traceback
\* and ends with status 1).
Exit(p, code, how, exc) ==
  /\ pc' = [pc EXCEPT ![p] = "exited"]
  /\ exitCode' = [exitCode EXCEPT ![p] = code]
  /\ outcome' = [outcome EXCEPT ![p] = how]
  /\ raised' = [raised EXCEPT ![p] = exc]

Continue(p, label) ==
  /\ pc' = [pc EXCEPT ![p] = label]
  /\ UNCHANGED <<exitCode, outcome, raised>>

(* ------------------------------ __rate_limit --------------------------- *)

\* The scheduler starts the script: main logs and calls __rate_limit, which
\* reads the clock (now = time.time()).
Invoke(p) ==
  /\ pc[p] \in {"idle", "exited"}
  /\ runs < MaxRuns
  /\ runs' = runs + 1
  /\ \E t \in Times : now' = [now EXCEPT ![p] = t]
  /\ pc' = [pc EXCEPT ![p] = "rl_read"]
  /\ last_run' = [last_run EXCEPT ![p] = Unset]
  /\ public_ip_address' = [public_ip_address EXCEPT ![p] = None]
  /\ attempt' = [attempt EXCEPT ![p] = 1]
  /\ records' = [records EXCEPT ![p] = NoBody]
  /\ idx' = [idx EXCEPT ![p] = 1]
  /\ exitCode' = [exitCode EXCEPT ![p] = Running]
  /\ raised' = [raised EXCEPT ![p] = None]
  /\ outcome' = [outcome EXCEPT ![p] = None]
  /\ dnsQueries' = [dnsQueries EXCEPT ![p] = 0]
  /\ gets' = [gets EXCEPT ![p] = 0]
  /\ slept' = [slept EXCEPT ![p] = 0]
  /\ puts' = [puts EXCEPT ![p] = <<>>]
  /\ resolution' = [resolution EXCEPT ![p] = None]
  /\ prevPass' = [prevPass EXCEPT ![p] = lastPass]
  /\ seen' = [seen EXCEPT ![p] = NotRead]
  /\ log' = [log EXCEPT ![p] = <<Line("executing dyndns agent", 0)>>]
  /\ UNCHANGED <<file, zone, synced, lastPass, blockedSince>>

\* A missing file taken for a reason to stop.
RateLimitNoFileBlocks(p) ==
  /\ pc[p] = "rl_read"
  /\ ~Exists(file)
  /\ Exit(p, 0, "RateLimited", None)
  /\ UNCHANGED <<file, zone, runs, now, last_run, public_ip_address, attempt,
                 records, idx, dnsQueries, gets, slept, puts, resolution,
                 synced, lastPass, prevPass, log, blockedSince>>
  /\ seen' = [seen EXCEPT ![p] = file]

\* os.path.exists is false: the read and the comparison are skipped.
RateLimitNoFile(p) ==
  /\ pc[p] = "rl_read"
  /\ ~Exists(file)
  /\ Continue(p, "rl_write")
  /\ UNCHANGED <<file, zone, runs, now, last_run, public_ip_address, attempt,
                 records, idx, dnsQueries, gets, slept, puts, resolution,
                 synced, lastPass, prevPass, log, blockedSince>>
  /\ seen' = [seen EXCEPT ![p] = file]

\* float() raises ValueError; nothing catches it, in __rate_limit or main.
RateLimitBadFile(p) ==
  /\ pc[p] = "rl_read"
  /\ Exists(file)
  /\ FloatRaises(file)
  /\ Exit(p, 1, "Crashed", "ValueError")
  /\ UNCHANGED <<file, zone, runs, now, last_run, public_ip_address, attempt,
                 records, idx, dnsQueries, gets, slept, puts, resolution,
                 synced, lastPass, prevPass, log, blockedSince>>
  /\ seen' = [seen EXCEPT ![p] = file]

\* A blocked run that refreshes the timestamp before it exits.
RateLimitHitRefreshes(p) ==
  /\ pc[p] = "rl_read"
  /\ Exists(file)
  /\ ~FloatRaises(file)
  /\ TooSoon(now[p], FloatOrZero(file))
  /\ last_run' = [last_run EXCEPT ![p] = FloatOrZero(file)]
  /\ file' = StrOf(now[p])
  /\ Exit(p, 0, "RateLimited", None)
  /\ UNCHANGED <<zone, runs, now, public_ip_address, attempt, records,
                 idx, dnsQueries, gets, slept, puts, resolution, synced,
                 lastPass, prevPass, log>>
  /\ seen' = [seen EXCEPT ![p] = file]
  /\ blockedSince' = blockedSince + 1

\* now - last_run < MIN_SECONDS_BETWEEN_RUNS: log and sys.exit(0).
RateLimitHit(p) ==
  /\ pc[p] = "rl_read"
  /\ Exists(file)
  /\ ~FloatRaises(file)
  /\ TooSoon(now[p], FloatOrZero(file))
  /\ last_run' = [last_run EXCEPT ![p] = FloatOrZero(file)]
  /\ Exit(p, 0, "RateLimited", None)
  /\ UNCHANGED <<file, zone, runs, now, public_ip_address, attempt, records,
                 idx, dnsQueries, gets, slept, puts, resolution, synced,
                 lastPass, prevPass, log>>
  /\ seen' = [seen EXCEPT ![p] = file]
  /\ blockedSince' = blockedSince + 1

\* The file was read and the interval has passed.
RateLimitPass(p) ==
  /\ pc[p] = "rl_read"
  /\ Exists(file)
  /\ ~FloatRaises(file)
  /\ ~TooSoon(now[p], FloatOrZero(file))
  /\ last_run' = [last_run EXCEPT ![p] = FloatOrZero(file)]
  /\ Continue(p, "rl_write")
  /\ UNCHANGED <<file, zone, runs, now, public_ip_address, attempt, records,
                 idx, dnsQueries, gets, slept, puts, resolution, synced,
                 lastPass, prevPass, log, blockedSince>>
  /\ seen' = [seen EXCEPT ![p] = file]

\* What open(RATE_LIMIT_FILE, "w") ... f.write(str(now)) leaves in the file.
WrittenStampStale(n, l) == IF l = Unset THEN StrOf(n) ELSE StrOf(l)

WrittenStamp(n, l) == StrOf(n)

\* The write put off: __rate_limit returns without touching the file.
RateLimitWriteSkipped(p) ==
  /\ pc[p] = "rl_write"
  /\ Continue(p, "get_public_ip")
  /\ UNCHANGED <<file, zone, runs, now, last_run, public_ip_address, attempt,
                 records, idx, dnsQueries, gets, slept, puts, resolution,
                 synced, lastPass, prevPass, seen, log, blockedSince>>

\* The file is overwritten with str(now); __rate_limit returns to main.
RateLimitWrite(p) ==
  /\ pc[p] = "rl_write"
  /\ file' = WrittenStamp(now[p], last_run[p])
  /\ lastPass' = now[p]
  /\ Continue(p, "get_public_ip")
  /\ UNCHANGED <<zone, runs, now, last_run, public_ip_address, attempt,
                 records, idx, dnsQueries, gets, slept, puts, resolution,
                 synced, prevPass, seen, log>>
  /\ blockedSince' = 0

(* ---------------------------- __get_public_ip -------------------------- *)

\* What resolver.resolve does: it raises, it returns an answer with no
\* rdata, or it returns an answer whose first rdata is address a.
ResolverOutcomes == {"raises", "empty", "answer"}

\* The value __get_public_ip returns: the except clause returns None, a for
\* loop over an empty answer falls off the end of the function (None), and
\* otherwise the first rdata's text is returned.
GetPublicIp(how, a) == IF how = "answer" THEN a ELSE None

\* main: "not public_ip_address".
NotIpNeverMissing(v) == FALSE

NotIp(v) == v = None \/ v = ""

\* One DNS query; main then tests the value returned.
Resolve(p, how, a) ==
  /\ pc[p] = "get_public_ip"
  /\ dnsQueries' = [dnsQueries EXCEPT ![p] = @ + 1]
  /\ resolution' = [resolution EXCEPT ![p] = how]
  /\ public_ip_address' = [public_ip_address EXCEPT ![p] = GetPublicIp(how, a)]
  /\ UNCHANGED <<file, zone, runs, now, last_run, attempt, records, idx,
                 gets, slept, puts, synced, lastPass, prevPass, seen, blockedSince>>

\* The resolution failed: main logs an error and returns.
MainNoPublicIp(p) ==
  \E how \in ResolverOutcomes, a \in IPs :
    /\ NotIp(GetPublicIp(how, a))
    /\ Resolve(p, how, a)
    /\ log' = [log EXCEPT ![p] =
                 Append(@, Line("public IP address could not be determined", 0))]
    /\ Exit(p, 0, "IpUnavailable", None)

\* The resolution gave an address: main goes on to the list call.
MainHasPublicIp(p) ==
  \E how \in ResolverOutcomes, a \in IPs :
    /\ ~NotIp(GetPublicIp(how, a))
    /\ Resolve(p, how, a)
    /\ UNCHANGED log
    /\ Continue(p, "list")

(* ---------------------- __get_cloudflare_dns_records ------------------- *)

\* time.sleep(RETRY_BACKOFF_SECONDS * attempt)
BackoffOnlyBetweenAttempts(n) ==
  IF n < MAX_RETRIES THEN RETRY_BACKOFF_SECONDS * n ELSE 0

BackoffConstant(n) == RETRY_BACKOFF_SECONDS

Backoff(n) == RETRY_BACKOFF_SECONDS * n

\* One failed attempt of the for loop: requests.get raises, or the status is
\* not 200, or the status is 200 and response.json() raises (caught by the
\* same except). The error is logged and the backoff slept. After attempt
\* MAX_RETRIES the loop ends and sys.exit(1) runs.
ListAttemptFails(p) ==
  /\ pc[p] = "list"
  /\ attempt[p] <= MAX_RETRIES
  /\ gets' = [gets EXCEPT ![p] = @ + 1]
  /\ slept' = [slept EXCEPT ![p] = @ + Backoff(attempt[p])]
  /\ attempt' = [attempt EXCEPT ![p] = @ + 1]
  /\ IF attempt[p] + 1 > MAX_RETRIES
       THEN Exit(p, 1, "ListFailed", None)
       ELSE Continue(p, "list")
  /\ UNCHANGED <<file, zone, runs, now, last_run, public_ip_address, records,
                 idx, dnsQueries, puts, resolution, synced, lastPass,
                 prevPass, seen, log, blockedSince>>

\* The parsed body of a 200 response: falsy ({} or null), an object without
\* "result", an object whose "result" is null, or an object whose "result"
\* is the list of the zone's records.
Bodies(z) ==
  {[kind |-> k, result |-> <<>>] : k \in {"falsy", "noresult", "nullresult"}}
    \cup {[kind |-> "ok", result |-> z]}

\* main: "not records or 'result' not in records".
NoResultOnlyFalsy(b) == b.kind = "falsy"

NoResult(b) == b.kind \in {"falsy", "noresult"}

\* "for record in records['result']" raises TypeError when it is null.
NotIterable(b) == b.kind = "nullresult"

\* An attempt returns 200 with a body that parses: the function returns it.
ListReturns(p, b) ==
  /\ pc[p] = "list"
  /\ attempt[p] <= MAX_RETRIES
  /\ b \in Bodies(zone)
  /\ gets' = [gets EXCEPT ![p] = @ + 1]
  /\ records' = [records EXCEPT ![p] = b]
  /\ UNCHANGED <<file, zone, runs, now, last_run, public_ip_address, attempt,
                 idx, dnsQueries, slept, puts, resolution, synced, lastPass,
                 prevPass, seen, blockedSince>>

\* main logs "no DNS records returned from Cloudflare" and returns.
MainNoRecords(p) ==
  \E b \in Bodies(zone) :
    /\ NoResult(b)
    /\ ListReturns(p, b)
    /\ log' = [log EXCEPT ![p] =
                 Append(@, Line("no DNS records returned from Cloudflare", 0))]
    /\ Exit(p, 0, "NoRecords", None)

\* The for statement of main raises TypeError; nothing catches it.
MainBadResult(p) ==
  \E b \in Bodies(zone) :
    /\ ~NoResult(b)
    /\ NotIterable(b)
    /\ ListReturns(p, b)
    /\ UNCHANGED log
    /\ Exit(p, 1, "Crashed", "TypeError")

\* main enters the for loop over records["result"].
MainHasRecords(p) ==
  \E b \in Bodies(zone) :
    /\ ~NoResult(b)
    /\ ~NotIterable(b)
    /\ ListReturns(p, b)
    /\ UNCHANGED log
    /\ Continue(p, "loop")

(* ------------------- main's loop and the update call ------------------- *)

\* The record the for loop of main is at.
Current(p) == records[p].result[idx[p]]

\* main: the record is an "A" record, it has the configured name, and its
\* content differs from the public IP address.
ShouldUpdateAnyName(rec, ip) ==
  /\ rec.type = "A"
  /\ rec.content # ip

ShouldUpdateAnyType(rec, ip) ==
  /\ rec.name = CLOUDFLARE_RECORD_NAME
  /\ rec.content # ip

ShouldUpdateAnyContent(rec, ip) ==
  /\ rec.type = "A"
  /\ rec.name = CLOUDFLARE_RECORD_NAME

ShouldUpdate(rec, ip) ==
  /\ rec.type = "A"
  /\ rec.name = CLOUDFLARE_RECORD_NAME
  /\ rec.content # ip

\* The "checking record" line: logged inside the branch of "A" records.
CheckingLogAnyType(rec, i) == <<Line("checking record", i)>>

CheckingLog(rec, i) ==
  IF rec.type = "A" THEN <<Line("checking record", i)>> ELSE <<>>

\* The decision line main logs for an "A" record: it is updated, it is up
\* to date, or it is not the record to update. Other records get none.
DecisionLog(rec, ip, i) ==
  IF rec.type # "A" THEN <<>>
  ELSE IF rec.name = CLOUDFLARE_RECORD_NAME /\ rec.content # ip
    THEN <<Line("updating record", i)>>
  ELSE IF rec.name = CLOUDFLARE_RECORD_NAME
    THEN <<Line("record is already up to date", i)>>
  ELSE <<Line("record is not the record we want to update", i)>>

\* The lines one pass of the for loop logs for the record at position i.
RecordLog(rec, ip, i) == CheckingLog(rec, i) \o DecisionLog(rec, ip, i)

\* The PUT request main has __update_cloudflare_dns_record send: the
\* record's id in the URL, and type "A", the record's name and the public
\* IP address as content in the JSON body.
PutRequestKeepsContent(rec, ip) ==
  [id |-> rec.id, type |-> "A", name |-> rec.name, content |-> rec.content]

PutRequest(rec, ip) ==
  [id |-> rec.id, type |-> "A", name |-> rec.name, content |-> ip]

\* The provider overwrites the record the request names.
ApplyPut(z, req) ==
  IF req.id \in DOMAIN z
    THEN [z EXCEPT ![req.id] =
            [id |-> req.id, type |-> req.type, name |-> req.name,
             content |-> req.content]]
    ELSE z

\* How requests.put ends: status 200, another status, or an exception (a
\* timeout or connection error, or response.json() raising on a 200).
PutOutcomes == {"ok", "status", "exception"}

\* One PUT request for the current record. The provider has applied it when
\* it answered 200; it has not when it answered another status; when the
\* call raised (a timeout, a lost response) it may or may not have.
Put(p, how, applied) ==
  LET req == PutRequest(Current(p), public_ip_address[p]) IN
  /\ applied \in BOOLEAN
  /\ how = "ok" => applied
  /\ how = "status" => ~applied
  /\ puts' = [puts EXCEPT ![p] =
                Append(@, [id |-> req.id, name |-> req.name,
                           content |-> req.content, how |-> how,
                           at |-> idx[p], prev |-> synced[req.id]])]
  /\ zone' = IF applied THEN ApplyPut(zone, req) ELSE zone
  /\ synced' = [synced EXCEPT ![req.id] =
                  IF how = "ok" THEN req.content ELSE None]

\* The record is not an "A" record, or it is one and main logs that it is
\* up to date or not the record to update.
MainSkipsRecord(p) ==
  /\ pc[p] = "loop"
  /\ idx[p] <= Len(records[p].result)
  /\ ~ShouldUpdate(Current(p), public_ip_address[p])
  /\ idx' = [idx EXCEPT ![p] = @ + 1]
  /\ Continue(p, "loop")
  /\ UNCHANGED <<file, zone, runs, now, last_run, public_ip_address, attempt,
                 records, dnsQueries, gets, slept, puts, resolution, synced,
                 lastPass, prevPass, seen, blockedSince>>
  /\ log' = [log EXCEPT ![p] = @ \o RecordLog(Current(p), public_ip_address[p], idx[p])]

\* The PUT returns 200: the update call logs and returns the parsed body,
\* which main ignores.
MainUpdateSucceeds(p) ==
  /\ pc[p] = "loop"
  /\ idx[p] <= Len(records[p].result)
  /\ ShouldUpdate(Current(p), public_ip_address[p])
  /\ Put(p, "ok", TRUE)
  /\ idx' = [idx EXCEPT ![p] = @ + 1]
  /\ Continue(p, "loop")
  /\ UNCHANGED <<file, runs, now, last_run, public_ip_address, attempt,
                 records, dnsQueries, gets, slept, resolution, lastPass,
                 prevPass, seen, blockedSince>>
  /\ log' = [log EXCEPT ![p] = @ \o RecordLog(Current(p), public_ip_address[p], idx[p])]

\* A failed update that ends the process with status 1.
MainUpdateFailsAndExits(p) ==
  /\ pc[p] = "loop"
  /\ idx[p] <= Len(records[p].result)
  /\ ShouldUpdate(Current(p), public_ip_address[p])
  /\ \E how \in PutOutcomes \ {"ok"}, applied \in BOOLEAN : Put(p, how, applied)
  /\ idx' = [idx EXCEPT ![p] = @ + 1]
  /\ Exit(p, 1, "UpdateFailed", None)
  /\ UNCHANGED <<file, runs, now, last_run, public_ip_address, attempt,
                 records, dnsQueries, gets, slept, resolution, lastPass,
                 prevPass, seen, blockedSince>>
  /\ log' = [log EXCEPT ![p] = @ \o RecordLog(Current(p), public_ip_address[p], idx[p])]

\* The PUT returns another status or raises: the update call logs the error
\* and returns None, which main ignores; the loop goes on.
MainUpdateFails(p) ==
  /\ pc[p] = "loop"
  /\ idx[p] <= Len(records[p].result)
  /\ ShouldUpdate(Current(p), public_ip_address[p])
  /\ \E how \in PutOutcomes \ {"ok"}, applied \in BOOLEAN : Put(p, how, applied)
  /\ idx' = [idx EXCEPT ![p] = @ + 1]
  /\ Continue(p, "loop")
  /\ UNCHANGED <<file, runs, now, last_run, public_ip_address, attempt,
                 records, dnsQueries, gets, slept, resolution, lastPass,
                 prevPass, seen, blockedSince>>
  /\ log' = [log EXCEPT ![p] = @ \o RecordLog(Current(p), public_ip_address[p], idx[p])]

\* The for loop has visited every record: main returns.
MainReturns(p) ==
  /\ pc[p] = "loop"
  /\ idx[p] > Len(records[p].result)
  /\ Exit(p, 0, "Done", None)
  /\ UNCHANGED <<file, zone, runs, now, last_run, public_ip_address, attempt,
                 records, idx, dnsQueries, gets, slept, puts, resolution,
                 synced, lastPass, prevPass, seen, log, blockedSince>>

(* ---------------------------- specification ---------------------------- *)

Step(p) ==
  \/ Invoke(p)
  \/ RateLimitNoFile(p)
  \/ RateLimitBadFile(p)
  \/ RateLimitHit(p)
  \/ RateLimitPass(p)
  \/ RateLimitWrite(p)
  \/ MainNoPublicIp(p)
  \/ MainHasPublicIp(p)
  \/ ListAttemptFails(p)
  \/ MainNoRecords(p)
  \/ MainBadResult(p)
  \/ MainHasRecords(p)
  \/ MainSkipsRecord(p)
  \/ MainUpdateSucceeds(p)
  \/ MainUpdateFails(p)
  \/ MainReturns(p)

\* One instance at a time: the scheduler starts the script again only after
\* the previous process has ended.
Next == \E p \in Single : Step(p)

Spec == Init /\ [][Next]_vars


(* ------------------------------- history ------------------------------- *)

\* The run of p has passed the rate limiter and written the timestamp.
Passed(p) ==
  \/ pc[p] \in {"get_public_ip", "list", "loop"}
  \/ /\ pc[p] = "exited"
     /\ \/ outcome[p] \in {"IpUnavailable", "ListFailed", "NoRecords", "Done"}
        \/ raised[p] = "TypeError"

\* The records the list call of p's run returned.
Listed(p) == records[p].result

\* The PUT requests of p's run that carry record id i.
PutsFor(p, i) == {k \in 1..Len(puts[p]) : puts[p][k].id = i}

\* Record rec is an "A" record with the configured name.
IsTarget(rec) == rec.type = "A" /\ rec.name = CLOUDFLARE_RECORD_NAME

\* No DNS query, no GET and no PUT was issued in the run of p.
NoNetworkCalls(p) == dnsQueries[p] = 0 /\ gets[p] = 0 /\ puts[p] = <<>>

\* The lines main has logged in the run of p.
Logged(p) == {log[p][k] : k \in 1..Len(log[p])}

\* The lines main has logged about the record at position i.
LoggedAbout(p, i) == {l \in Logged(p) : l.at = i}

(* ----------------------- two instances at once ------------------------- *)

\* Nothing keeps a second instance from starting while the first runs: the
\* script takes no lock. The zone holds the one "A" record with the
\* configured name here, and the file is missing, unreadable or holds the
\* earliest timestamp.
InitConcurrent ==
  /\ Init
  /\ Len(zone) = 1
  /\ IsTarget(zone[1])
  /\ file \in {AbsentFile, GarbageFile, StrOf(Epoch)}

NextConcurrent == \E p \in Procs : Step(p)

SpecConcurrent == InitConcurrent /\ [][NextConcurrent]_vars

(* -------------------------------- claims ------------------------------- *)

\* C1: when the timestamp file was read as t0 and the run started at t1
\* with t1 - t0 < 55 (t1 < t0 included), the process has ended with exit
\* code 0 and the run has issued no DNS query, no GET and no PUT.
C1_BlockedRunExitsZeroWithoutCalls ==
  \A p \in Procs :
    (last_run[p] # Unset /\ now[p] - last_run[p] < 55) =>
      /\ pc[p] = "exited"
      /\ exitCode[p] = 0
      /\ raised[p] = None
      /\ NoNetworkCalls(p)

C1_Witness ==
  \E p \in Procs :
    /\ last_run[p] # Unset
    /\ now[p] - last_run[p] = 54
    /\ outcome[p] = "RateLimited"

\* C2: in a run that passed the limiter, resolved an address and got a
\* list of records, every record the loop has visited that is an "A" record
\* with the configured name and a content other than the resolved address
\* has exactly one PUT, carrying its id, its name and the resolved address;
\* and a run that ends normally has visited every record.
C2_ExactlyOnePutForStaleTarget ==
  \A p \in Procs :
    (pc[p] \in {"loop", "exited"} /\ records[p].kind = "ok") =>
      /\ outcome[p] = "Done" => idx[p] = Len(Listed(p)) + 1
      /\ \A i \in 1..Len(Listed(p)) :
           (/\ i < idx[p]
            /\ IsTarget(Listed(p)[i])
            /\ Listed(p)[i].content # public_ip_address[p]) =>
             /\ Cardinality(PutsFor(p, Listed(p)[i].id)) = 1
             /\ \A k \in PutsFor(p, Listed(p)[i].id) :
                  /\ puts[p][k].name = Listed(p)[i].name
                  /\ puts[p][k].content = public_ip_address[p]

C2_Witness ==
  \E p \in Procs :
    /\ outcome[p] = "Done"
    /\ \E i \in 1..Len(Listed(p)) :
         /\ IsTarget(Listed(p)[i])
         /\ Listed(p)[i].content = "1.2.3.4"
         /\ public_ip_address[p] = "5.6.7.8"
         /\ Cardinality(PutsFor(p, Listed(p)[i].id)) = 1

\* C3: no PUT is issued for a listed record whose content already equals
\* the resolved address; and no PUT is issued for a record whose last PUT
\* returned 200 and wrote the address the current run resolved (the address
\* is unchanged since the successful update).
C3_NoPutWhenUpToDate ==
  \A p \in Procs :
    \A k \in 1..Len(puts[p]) :
      /\ Listed(p)[puts[p][k].at].content # public_ip_address[p]
      /\ puts[p][k].prev # public_ip_address[p]

C3_Witness ==
  \E p \in Procs :
    /\ runs = 2
    /\ outcome[p] = "Done"
    /\ puts[p] = <<>>
    /\ \E i \in 1..Len(Listed(p)) :
         /\ IsTarget(Listed(p)[i])
         /\ synced[Listed(p)[i].id] = public_ip_address[p]
         /\ Listed(p)[i].content = public_ip_address[p]

\* C4: a listed record whose type is not "A" or whose name is not the
\* configured name has no PUT in the run, whatever its content.
C4_NoPutForOtherRecords ==
  \A p \in Procs :
    \A i \in 1..Len(Listed(p)) :
      ~IsTarget(Listed(p)[i]) => PutsFor(p, Listed(p)[i].id) = {}

C4_Witness ==
  \E p \in Procs :
    /\ outcome[p] = "Done"
    /\ \E i, j \in 1..Len(Listed(p)) :
         /\ Listed(p)[i].type # "A"
         /\ Listed(p)[i].name = CLOUDFLARE_RECORD_NAME
         /\ Listed(p)[i].content # public_ip_address[p]
         /\ Listed(p)[j].type = "A"
         /\ Listed(p)[j].name # CLOUDFLARE_RECORD_NAME
         /\ Listed(p)[j].content # public_ip_address[p]
         /\ puts[p] = <<>>

\* C5: when MAX_RETRIES GET requests were made and none returned a body,
\* the process has ended with a non-zero exit code, no PUT was issued and
\* the run slept 5 + 10 + 15 = 30 seconds.
C5_ListExhaustionIsFatal ==
  \A p \in Procs :
    (gets[p] = 3 /\ records[p] = NoBody) =>
      /\ pc[p] = "exited"
      /\ exitCode[p] \notin {Running, 0}
      /\ puts[p] = <<>>
      /\ slept[p] = 30

C5_Witness ==
  \E p \in Procs :
    /\ outcome[p] = "ListFailed"
    /\ gets[p] = 3
    /\ slept[p] = 30
    /\ exitCode[p] = 1

\* C6: when the resolver raised or returned an empty answer, the run has
\* ended after that single DNS query, with no GET and no PUT.
C6_ResolutionFailureEndsRun ==
  \A p \in Procs :
    resolution[p] \in {"raises", "empty"} =>
      /\ pc[p] = "exited"
      /\ outcome[p] = "IpUnavailable"
      /\ dnsQueries[p] = 1
      /\ gets[p] = 0
      /\ puts[p] = <<>>

C6_Witness ==
  \E p \in Procs :
    /\ resolution[p] = "empty"
    /\ outcome[p] = "IpUnavailable"
    /\ dnsQueries[p] = 1

\* C7: once a run has passed the limiter the file holds that run's start
\* time, however the run goes on or ends; and a run that starts less than
\* 55 seconds after the start of the last run that passed the limiter is
\* blocked and makes no network call.
C7_PassedRunConsumesWindow ==
  \A p \in Procs :
    /\ Passed(p) => file = StrOf(now[p]) /\ lastPass = now[p]
    /\ (/\ pc[p] \notin {"idle", "rl_read"}
        /\ prevPass[p] # Unset
        /\ now[p] - prevPass[p] < 55) =>
         /\ outcome[p] = "RateLimited"
         /\ NoNetworkCalls(p)

C7_Witness ==
  \E p \in Procs :
    /\ outcome[p] = "ListFailed"
    /\ exitCode[p] = 1
    /\ file = StrOf(now[p])

\* C8: the process ends with a non-zero exit code only when the list call
\* exhausted its retries, and no exception escapes main.
C8_NonZeroOnlyOnListExhaustion ==
  \A p \in Procs :
    pc[p] = "exited" =>
      /\ raised[p] = None
      /\ exitCode[p] # 0 => outcome[p] = "ListFailed"

\* C9: a PUT that did not return 200 is the only request for its record in
\* the run, raises nothing and leaves the exit code alone; main goes on to
\* the records after it (each of them that needs an update gets its PUT) and
\* the process ends with exit code 0 after the last record.
C9_UpdateFailureIsSoft ==
  \A p \in Procs :
    \A k \in 1..Len(puts[p]) :
      puts[p][k].how # "ok" =>
        /\ Cardinality(PutsFor(p, puts[p][k].id)) = 1
        /\ raised[p] = None
        /\ exitCode[p] \in {Running, 0}
        /\ idx[p] > puts[p][k].at
        /\ \A i \in (puts[p][k].at + 1)..(idx[p] - 1) :
             (IsTarget(Listed(p)[i])
                /\ Listed(p)[i].content # public_ip_address[p]) =>
               PutsFor(p, Listed(p)[i].id) # {}
        /\ pc[p] = "exited" =>
             /\ outcome[p] = "Done"
             /\ exitCode[p] = 0
             /\ idx[p] = Len(Listed(p)) + 1

C9_Witness ==
  \E p \in Procs :
    /\ outcome[p] = "Done"
    /\ exitCode[p] = 0
    /\ Len(puts[p]) = 2
    /\ puts[p][1].how = "status"
    /\ puts[p][2].at = 2

\* C10 as stated: in every run the PUT requests are for at most one record,
\* an "A" record with the configured name.
C10_AtMostOneRecordUpdated ==
  \A p \in Procs :
    /\ Cardinality({puts[p][k].id : k \in 1..Len(puts[p])}) <= 1
    /\ \A k \in 1..Len(puts[p]) : IsTarget(Listed(p)[puts[p][k].at])

\* C10 amended: every PUT of a run is for a listed "A" record with the
\* configured name, each such record gets at most one PUT, and so the run
\* updates at most as many records as the list response holds "A" records
\* with the configured name: at most one when it holds at most one.
C10_OnlyTargetRecordsUpdated ==
  \A p \in Procs :
    LET targets == {i \in 1..Len(Listed(p)) : IsTarget(Listed(p)[i])}
        updated == {puts[p][k].id : k \in 1..Len(puts[p])}
    IN /\ \A k \in 1..Len(puts[p]) :
            /\ puts[p][k].at \in targets
            /\ puts[p][k].id = Listed(p)[puts[p][k].at].id
            /\ Cardinality(PutsFor(p, puts[p][k].id)) = 1
       /\ Cardinality(updated) <= Cardinality(targets)
       /\ Cardinality(targets) <= 1 => Cardinality(updated) <= 1

C10_Witness ==
  \E p \in Procs :
    /\ outcome[p] = "Done"
    /\ Len(Listed(p)) = 2
    /\ Listed(p)[1].type = "A" /\ Listed(p)[2].type = "A"
    /\ Listed(p)[1].name # CLOUDFLARE_RECORD_NAME
    /\ Listed(p)[1].content # public_ip_address[p]
    /\ Listed(p)[2].name = CLOUDFLARE_RECORD_NAME
    /\ Len(puts[p]) = 1
    /\ puts[p][1].id = 2
\* C11: a run that found no timestamp file goes on past the limiter: it is
\* about to write the file, or it has written the file, which holds the
\* run's start time.
C11_AbsentFileAlwaysProceeds ==
  \A p \in Procs :
    seen[p] = AbsentFile =>
      \/ pc[p] = "rl_write" /\ exitCode[p] = Running
      \/ Passed(p) /\ file = StrOf(now[p])

C11_Witness ==
  \E p \in Procs :
    /\ seen[p] = AbsentFile
    /\ Passed(p)
    /\ file = StrOf(now[p])
    /\ dnsQueries[p] = 1

\* C12: a run that found the file empty (or whitespace only) or holding
\* text that is not a number has taken the last run to be 0, raised nothing
\* and gone on past the limiter.
C12_UnparseableFileReadsAsZero ==
  \A p \in Procs :
    seen[p].kind \in {"empty", "garbage"} =>
      /\ last_run[p] = 0
      /\ raised[p] = None
      /\ pc[p] = "rl_write" \/ Passed(p)
\* C13: the limiter decides on the value an instance read, whatever has
\* been written since. When two instances have both passed it in runs that
\* started less than 55 seconds apart, neither found the other's timestamp
\* in the file: each read (or found no file) before the other wrote. The
\* witness is such a state, with both instances past their DNS query.
C13_PassersDidNotSeeEachOther ==
  \A p, q \in Procs :
    (/\ p # q
     /\ Passed(p)
     /\ Passed(q)
     /\ now[p] - now[q] < 55
     /\ now[q] - now[p] < 55) =>
      /\ seen[p] # StrOf(now[q])
      /\ seen[q] # StrOf(now[p])

C13_Witness ==
  \E p, q \in Procs :
    /\ p # q
    /\ Passed(p)
    /\ Passed(q)
    /\ now[q] - now[p] < 55
    /\ now[p] - now[q] < 55
    /\ seen[p].kind = "num"
    /\ seen[q] = seen[p]
    /\ dnsQueries[p] = 1
    /\ dnsQueries[q] = 1
    /\ gets[p] >= 1
    /\ gets[q] >= 1
\* C14: a run makes at most 3 GET requests. Once an attempt has returned a
\* parsed body, it was the last request and nothing was slept after it: the
\* run slept 0, 5 or 15 seconds when it was attempt 1, 2 or 3. While no
\* attempt has returned, each of the f failed attempts n = 1..f was followed
\* by a sleep of 5*n seconds.
C14_RetryAndBackoff ==
  \A p \in Procs :
    /\ gets[p] <= 3
    /\ records[p] # NoBody =>
         /\ attempt[p] = gets[p]
         /\ gets[p] = 1 => slept[p] = 0
         /\ gets[p] = 2 => slept[p] = 5
         /\ gets[p] = 3 => slept[p] = 15
    /\ records[p] = NoBody =>
         /\ attempt[p] = gets[p] + 1
         /\ slept[p] = (5 * gets[p] * (gets[p] + 1)) \div 2

C14_Witness ==
  \E p \in Procs :
    /\ records[p].kind = "ok"
    /\ outcome[p] = "Done"
    /\ gets[p] = 3
    /\ slept[p] = 15
\* C15: the events of a run come in the order file check and read, file
\* write, DNS query, GET requests, PUT requests. A run that has issued any
\* network call has looked at the file and written its start time to it; a
\* run that has issued a GET has made its one DNS query, which gave an
\* address, and is at the list call or after it; a run that has issued a
\* PUT has got a 200 list response with records and is in or after the
\* loop, so it issues no further DNS query or GET.
C15_EventOrder ==
  \A p \in Procs :
    /\ Passed(p) => seen[p] # NotRead
    /\ (dnsQueries[p] > 0 \/ gets[p] > 0 \/ puts[p] # <<>>) =>
         /\ Passed(p)
         /\ seen[p] # NotRead
         /\ file = StrOf(now[p])
         /\ pc[p] \in {"list", "loop", "exited"}
    /\ gets[p] > 0 =>
         /\ dnsQueries[p] = 1
         /\ resolution[p] = "answer"
         /\ public_ip_address[p] \in IPs
    /\ puts[p] # <<>> =>
         /\ gets[p] >= 1
         /\ records[p].kind = "ok"
         /\ pc[p] \in {"loop", "exited"}

C15_Witness ==
  \E p \in Procs :
    /\ outcome[p] = "Done"
    /\ seen[p].kind = "num"
    /\ file = StrOf(now[p])
    /\ dnsQueries[p] = 1
    /\ gets[p] = 2
    /\ Len(puts[p]) >= 1
\* C16: a blocked run leaves the file as it found it. With one instance at
\* a time, a run that starts 55 seconds or more after the start of the last
\* run that passed the limiter goes on past it, however many runs were
\* blocked in between; and a run that passes started 55 seconds or more
\* after the start of the run that passed before it.
C16_BlockedRunsDoNotExtendWindow ==
  \A p \in Procs :
    /\ outcome[p] = "RateLimited" =>
         /\ file = seen[p]
         /\ lastPass = prevPass[p]
    /\ (/\ pc[p] \notin {"idle", "rl_read"}
        /\ prevPass[p] # Unset
        /\ now[p] - prevPass[p] >= 55) =>
         /\ outcome[p] # "RateLimited"
         /\ pc[p] = "rl_write" \/ Passed(p)
    /\ (Passed(p) /\ prevPass[p] # Unset) => now[p] - prevPass[p] >= 55

C16_Witness ==
  \E p \in Procs :
    /\ pc[p] = "rl_write"
    /\ blockedSince >= 1
    /\ prevPass[p] # Unset
    /\ now[p] - prevPass[p] = 55
    /\ file = StrOf(prevPass[p])
\* C17: when the list call returned a 200 whose parsed body is falsy or has
\* no "result" key, that request was the last one (no retry, no backoff for
\* it), main logged the error, no PUT was issued and the process ended with
\* exit code 0; when "result" is an empty list, no PUT is issued and the
\* process ends with exit code 0.
C17_EmptyBodyEndsRunWithoutUpdate ==
  \A p \in Procs :
    /\ records[p].kind \in {"falsy", "noresult"} =>
         /\ pc[p] = "exited"
         /\ outcome[p] = "NoRecords"
         /\ exitCode[p] = 0
         /\ raised[p] = None
         /\ puts[p] = <<>>
         /\ attempt[p] = gets[p]
         /\ slept[p] = (5 * (gets[p] - 1) * gets[p]) \div 2
         /\ log[p][Len(log[p])] =
              Line("no DNS records returned from Cloudflare", 0)
    /\ (records[p].kind = "ok" /\ Listed(p) = <<>>) =>
         /\ puts[p] = <<>>
         /\ pc[p] \in {"loop", "exited"}
         /\ pc[p] = "exited" =>
              /\ outcome[p] = "Done"
              /\ exitCode[p] = 0
              /\ raised[p] = None

C17_Witness ==
  \E p \in Procs :
    /\ records[p].kind = "noresult"
    /\ outcome[p] = "NoRecords"
    /\ exitCode[p] = 0
    /\ gets[p] = 1
\* C18: a run makes at most one DNS query, at most 3 GET requests and at
\* most one PUT per listed record, and a process that has ended is in one of
\* the terminal states RateLimited, IpUnavailable, ListFailed and Done (main
\* returning after a 200 response without records counts as Done).
C18_SinglePassEndsInNamedState ==
  \A p \in Procs :
    /\ dnsQueries[p] <= 1
    /\ gets[p] <= 3
    /\ \A i \in RecordIds : Cardinality(PutsFor(p, i)) <= 1
    /\ pc[p] = "exited" =>
         outcome[p] \in
           {"RateLimited", "IpUnavailable", "ListFailed", "Done", "NoRecords"}

\* C19 as stated: the "checking record" line is logged for every record the
\* loop has visited, whatever its type.
C19_CheckingLoggedForEveryRecord ==
  \A p \in Procs :
    \A i \in 1..Len(Listed(p)) :
      i < idx[p] => Line("checking record", i) \in Logged(p)

\* C19 amended: the "checking record" line is logged for exactly the
\* visited records of type "A", each followed by one decision line; a record
\* of another type gets no log line at all and no PUT.
C19_CheckingLoggedForARecordsOnly ==
  \A p \in Procs :
    \A i \in 1..Len(Listed(p)) :
      /\ Line("checking record", i) \in Logged(p) <=>
           (i < idx[p] /\ Listed(p)[i].type = "A")
      /\ (i < idx[p] /\ Listed(p)[i].type = "A") =>
           Cardinality(LoggedAbout(p, i)) = 2
      /\ Listed(p)[i].type # "A" =>
           /\ LoggedAbout(p, i) = {}
           /\ PutsFor(p, Listed(p)[i].id) = {}

C19_Witness ==
  \E p \in Procs :
    /\ outcome[p] = "Done"
    /\ Len(Listed(p)) = 2
    /\ Listed(p)[1].type = "AAAA"
    /\ Listed(p)[1].name = CLOUDFLARE_RECORD_NAME
    /\ Listed(p)[2].type = "A"
    /\ LoggedAbout(p, 1) = {}
    /\ Line("checking record", 2) \in Logged(p)
====
